---- MODULE Spec2Model ----
(***************************************************************************)
(* System Latency Jitter Test (src/sljtest.c, src/sjtest.c).               *)
(*                                                                         *)
(* The program is one thread of control: main() parses and checks its      *)
(* arguments, sets up the outlier ring buffer and the histogram table,     *)
(* samples blocks of 11 TSC reads until a wall-clock deadline, and prints  *)
(* the histogram, the statistics and the tuning advice.  The variable pc   *)
(* is the position of main(); the other variables are main()'s locals and  *)
(* the file's globals, under their names in the source.                    *)
(*                                                                         *)
(* uint64_t values that take part in the histogram table are kept to       *)
(* their full 64-bit width as four 16-bit limbs, most significant first    *)
(* (TLC's own integers are 32 bits wide).                                  *)
(***************************************************************************)
EXTENDS Integers, Sequences, FiniteSets, Bags, TLC

(***************************************************************************)
(* Bounds of the model.                                                    *)
(***************************************************************************)
\* Largest -b value of the table-construction specification.
MaxBins == 78
\* Capacity of the outlier ring buffer.  The source compiles in 10000
\* (DEF_OUTBUF); the model scales the ring down to a size TLC can wrap and
\* that still has a quarter of more than one record.
MaxOutbuf == 8
\* Largest number of blocks the wall clock lets a run sample.
MaxBlocks == 2
\* How far below INT_MAX the counts of a long run are taken up.
CountSlack == 3

(***************************************************************************)
(* Program constants.                                                      *)
(***************************************************************************)
DEF_BINS == 20
DEF_KNEE == 50
DEF_MIN == 10
DEF_OUTBUF == MaxOutbuf
DEF_PAUSE == 0
DEF_RUNTIME == 1
DEF_LINEWID == 79
\* DEF_OUTFILE, and outbuf, outfile and histo before they are set up: the null
\* pointer is the empty sequence (a name, a ring and a table are never empty)
NULL == <<>>
\* FILE *outfile once fopen() has returned it, and once it is closed
FileOpen == <<"open">>
FileClosed == <<"closed">>
\* ARRAY_SIZE(deltas)
BlockLen == 10
\* strlen(pre_graph_hdr) and strlen(graph_str)
PreGraphHdrLen == 53
GraphStrLen == 67

(***************************************************************************)
(* uint64_t arithmetic on four 16-bit limbs, most significant limb first.  *)
(***************************************************************************)
Limb == 2^16

\* the uint64_t with value n, for a TLC integer n >= 0
U64(n) == <<0, 0, n \div Limb, n % Limb>>

UINT64_MAX == <<Limb - 1, Limb - 1, Limb - 1, Limb - 1>>

\* a < b on uint64_t
RECURSIVE LtFrom(_, _, _)
LtFrom(a, b, k) ==
    IF k > 4 THEN FALSE
    ELSE IF a[k] # b[k] THEN a[k] < b[k]
    ELSE LtFrom(a, b, k + 1)

Lt64(a, b) == LtFrom(a, b, 1)
Le64(a, b) == ~Lt64(b, a)

\* a + b modulo 2^64
Add64(a, b) ==
    LET s4 == a[4] + b[4]
        s3 == a[3] + b[3] + s4 \div Limb
        s2 == a[2] + b[2] + s3 \div Limb
        s1 == a[1] + b[1] + s2 \div Limb
    IN  <<s1 % Limb, s2 % Limb, s3 % Limb, s4 % Limb>>

\* a - b modulo 2^64
Sub64(a, b) ==
    LET d4 == a[4] - b[4]
        d3 == a[3] - b[3] - (IF d4 < 0 THEN 1 ELSE 0)
        d2 == a[2] - b[2] - (IF d3 < 0 THEN 1 ELSE 0)
        d1 == a[1] - b[1] - (IF d2 < 0 THEN 1 ELSE 0)
    IN  <<d1 % Limb, d2 % Limb, d3 % Limb, d4 % Limb>>

\* a * c modulo 2^64, for a TLC integer 0 <= c < 2^15
Mul64(a, c) ==
    LET p4 == a[4] * c
        p3 == a[3] * c + p4 \div Limb
        p2 == a[2] * c + p3 \div Limb
        p1 == a[1] * c + p2 \div Limb
    IN  <<p1 % Limb, p2 % Limb, p3 % Limb, p4 % Limb>>

\* a % c, for a TLC integer 0 < c < 2^15
Rem64(a, c) == ((((((a[1] % c) * Limb + a[2]) % c) * Limb + a[3]) % c) * Limb + a[4]) % c

\* a / c truncated, for a TLC integer 0 < c < 2^15
Div64(a, c) ==
    LET r1 == a[1]
        r2 == (r1 % c) * Limb + a[2]
        r3 == (r2 % c) * Limb + a[3]
        r4 == (r3 % c) * Limb + a[4]
    IN  <<r1 \div c, r2 \div c, r3 \div c, r4 \div c>>

(***************************************************************************)
(* State.                                                                  *)
(***************************************************************************)
VARIABLES
    pc,            \* position of main()
    argv,          \* the command line: a sequence of <<option, value>>
    args,          \* args_t args
    errflag,       \* main()'s errflag
    histo,         \* bin_t *histo: NULL, or the table [0..bins-1 -> bin_t]
    oob,           \* indices histo_setup wrote outside [0, bins-1]
    outbuf,        \* outlier_t *outbuf: NULL, or the ring [0..outbuf-1]
    outfile,       \* FILE *outfile: NULL, FileOpen or FileClosed
    obp,           \* obp - outbuf, the next open entry of the ring
    didwrap,
    min, max,      \* uint64_t min, max
    delta_count, delta_sum, timing_ticks,
    avg, last_avg, svn,
    tsc,           \* the hardware counter
    t0, t5, t10,   \* the block's TSC reads that main() uses again
    deltas, dp,    \* uint64_t deltas[10] and dp - deltas
    start_tsc, stop_tsc, start_us, stop_us, now_us,
    clock,         \* the wall clock, in microseconds
    out,           \* what the run has printed and written
    seen           \* history: every sample analysed so far, as [when, delta]

vars == <<pc, argv, args, errflag, histo, oob, outbuf, outfile, obp, didwrap,
          min, max, delta_count, delta_sum, timing_ticks, avg, last_avg, svn,
          tsc, t0, t5, t10, deltas, dp, start_tsc, stop_tsc, start_us,
          stop_us, now_us, clock, out, seen>>

(***************************************************************************)
(* double values.  avg, last_avg and svn are modelled as exact rationals   *)
(* [n, d] in lowest terms with d > 0: the model keeps the arithmetic of    *)
(* the update and leaves out the rounding of IEEE doubles.                 *)
(***************************************************************************)
RECURSIVE GCD(_, _)
GCD(a, b) == IF b = 0 THEN a ELSE GCD(b, a % b)

Abs(x) == IF x < 0 THEN -x ELSE x

Rat(n, d) ==
    LET g == GCD(Abs(n), Abs(d))
        s == IF d < 0 THEN -1 ELSE 1
    IN  [n |-> s * (n \div g), d |-> s * (d \div g)]

RInt(k) == [n |-> k, d |-> 1]
RAdd(x, y) ==
    LET l == (x.d \div GCD(x.d, y.d)) * y.d
    IN  Rat(x.n * (l \div x.d) + y.n * (l \div y.d), l)
RSub(x, y) == RAdd(x, [n |-> -y.n, d |-> y.d])
RMul(x, y) ==
    LET a == Rat(x.n, y.d)
        b == Rat(y.n, x.d)
    IN  Rat(a.n * b.n, a.d * b.d)
RDivInt(x, k) == RMul(x, [n |-> 1, d |-> k])
RLt(x, y) == x.n * y.d < y.n * x.d

(***************************************************************************)
(* Command line.  An argument is a sequence of characters; atoi() reads an *)
(* optional sign and the leading digits and ignores the rest.              *)
(***************************************************************************)
DigitChars == <<"0", "1", "2", "3", "4", "5", "6", "7", "8", "9">>
IsDigit(c) == \E i \in 1..10 : DigitChars[i] = c
DigitVal(c) == (CHOOSE i \in 1..10 : DigitChars[i] = c) - 1

RECURSIVE AtoiDigits(_, _)
AtoiDigits(s, acc) ==
    IF s = <<>> \/ ~IsDigit(Head(s)) THEN acc
    ELSE AtoiDigits(Tail(s), 10 * acc + DigitVal(Head(s)))

atoi(s) ==
    IF s = <<>> THEN 0
    ELSE IF Head(s) = "-" THEN -AtoiDigits(Tail(s), 0)
    ELSE IF Head(s) = "+" THEN AtoiDigits(Tail(s), 0)
    ELSE AtoiDigits(s, 0)

\* the decimal text of n >= 0, as a user types it
RECURSIVE Text(_)
Text(n) ==
    IF n < 10 THEN <<DigitChars[n + 1]>>
    ELSE Append(Text(n \div 10), DigitChars[(n % 10) + 1])

\* conversion of an int to uint64_t (args.knee = atoi(optarg))
IntToU64(n) == IF n >= 0 THEN U64(n) ELSE Sub64(U64(0), U64(-n))

\* args_t args = { DEF_BINS, DEF_OUTFILE, DEF_KNEE, ... }
DefaultArgs ==
    [bins |-> DEF_BINS, outfile |-> NULL, knee |-> U64(DEF_KNEE),
     min |-> U64(DEF_MIN), outbuf |-> DEF_OUTBUF, pause |-> DEF_PAUSE,
     runtime |-> DEF_RUNTIME, linewid |-> DEF_LINEWID]

\* args_parse(): the switch on each option getopt_long() returns.  'o' is in
\* OptString but has no case, so it takes the default branch with 'h' and
\* with the '?' getopt_long() returns for an unknown option.
RECURSIVE args_parse(_, _)
args_parse(a, av) ==
    IF av = <<>> THEN [args |-> a, ret |-> 0]
    ELSE LET c == Head(av)[1]
             optarg == Head(av)[2]
         IN  CASE c = "b" -> args_parse([a EXCEPT !.bins = atoi(optarg)], Tail(av))
               [] c = "f" -> args_parse([a EXCEPT !.outfile = optarg], Tail(av))
               [] c = "k" -> args_parse([a EXCEPT !.knee = IntToU64(atoi(optarg))], Tail(av))
               [] c = "m" -> args_parse([a EXCEPT !.min = IntToU64(atoi(optarg))], Tail(av))
               [] c = "p" -> args_parse([a EXCEPT !.pause = atoi(optarg)], Tail(av))
               [] c = "r" -> args_parse([a EXCEPT !.runtime = atoi(optarg)], Tail(av))
               [] c = "w" -> args_parse([a EXCEPT !.linewid = atoi(optarg)], Tail(av))
               [] OTHER -> [args |-> a, ret |-> 1]

\* args.bins/2: int division truncates towards zero
Half(n) == IF n >= 0 THEN n \div 2 ELSE -((-n) \div 2)

(***************************************************************************)
(* main(): the argument validity checks.                                   *)
(***************************************************************************)
\* if (args.knee <= args.min)
KneeNotAboveMin(a) == Le64(a.knee, a.min)
\* TooFewValues with the check left out
TooFewValuesUnchecked(a) == FALSE

\* if (args.knee-args.min < args.bins/2), the int converted to uint64_t
TooFewValues(a) == Lt64(Sub64(a.knee, a.min), IntToU64(Half(a.bins)))
\* if (args.linewid < strlen(pre_graph_hdr)+1), the int converted to size_t
LineTooShort(a) == a.linewid >= 0 /\ a.linewid < PreGraphHdrLen + 1
\* if (args.linewid > strlen(pre_graph_hdr)+strlen(graph_str))
LineTooLong(a) == a.linewid < 0 \/ a.linewid > PreGraphHdrLen + GraphStrLen

\* the number of times the checks do errflag++
ArgErrors(a) ==
    (IF KneeNotAboveMin(a) THEN 1 ELSE 0) + (IF TooFewValues(a) THEN 1 ELSE 0)
    + (IF LineTooShort(a) THEN 1 ELSE 0) + (IF LineTooLong(a) THEN 1 ELSE 0)

(***************************************************************************)
(* histo_setup().  Both loops write the entries in ascending order from    *)
(* histo[0] without a gap, so the memory written so far is a sequence:     *)
(* mem[i+1] is the entry at histo+i.  What malloc() returned is not        *)
(* initialised: an entry no loop wrote has no value.                       *)
(***************************************************************************)
\* bp->ub = args.min+(args.knee-args.min)*(bp-histo+1)/(args.bins/2)
LinearUb(a, i) ==
    Add64(a.min, Div64(Mul64(Sub64(a.knee, a.min), i + 1), Half(a.bins)))

\* for (bp=histo; bp<histo+(args.bins/2); bp++)
RECURSIVE LinearFill(_, _)
LinearFill(a, mem) ==
    LET bp == Len(mem)
    IN  IF bp < Half(a.bins)
        THEN LinearFill(a, Append(mem, [ub |-> LinearUb(a, bp), count |-> 0]))
        ELSE mem

\* for ( ; bp<histo+args.bins; bp++): two entries are written per test of bp
RECURSIVE UpperFill(_, _, _)
UpperFill(a, mem, mult) ==
    LET bp == Len(mem)
        mult10 == Mul64(mult, 10)
    IN  IF bp < a.bins
        THEN UpperFill(a, Append(Append(mem, [ub |-> Mul64(mult, 2), count |-> 0]),
                                 [ub |-> mult10, count |-> 0]), mult10)
        ELSE mem

\* Sentinel with the assignment left out
SentinelOmitted(a, mem) == mem

\* histo[args.bins-1].ub = UINT64_MAX
Sentinel(a, mem) == [mem EXCEPT ![a.bins].ub = UINT64_MAX]

\* the table, indexed from 0, and the indices written outside it
histo_setup(a) ==
    LET mem == Sentinel(a, UpperFill(a, LinearFill(a, <<>>), a.knee))
        inside == {j \in 0..(a.bins - 1) : j < Len(mem)}
    IN  [histo |-> [j \in inside |-> mem[j + 1]],
         oob |-> {j \in 0..(Len(mem) - 1) : j >= a.bins}]

(***************************************************************************)
(* The environment: command lines, the TSC and the wall clock.             *)
(***************************************************************************)
Opt(c, n) == <<c, Text(n)>>
OutName == <<"o", "u", "t">>

\* command lines that are run with the default duration
RunArgv ==
    { <<>>,
      << <<"f", OutName>> >>,
      << Opt("b", 10), <<"f", OutName>> >>,
      << Opt("b", 5) >>,
      << Opt("m", 6), <<"f", OutName>> >>,
      << Opt("m", 7), Opt("p", 1) >>,
      << Opt("r", 2148) >>,
      << Opt("b", 4), Opt("k", 8), Opt("m", 2), <<"f", OutName>> >> }

\* command lines over a grid of -b, -k, -m and -w, run for -r 0
GridArgv ==
    { << Opt("b", b), Opt("k", k), Opt("m", m), Opt("w", w), Opt("r", 0) >> :
        b \in {1, 2, 3, 6, 20, 81}, k \in {10, 11, 20, 50}, m \in {10, 19, 50},
        w \in {53, 54, 120, 121} }

\* command lines args_parse() refuses, and arguments atoi() reads as negative
OddArgv ==
    { << <<"h", <<>> >> >>,
      << Opt("o", 5) >>,
      << Opt("b", 4), Opt("o", 5), Opt("k", 8) >>,
      << <<"x", <<>> >> >>,
      << <<"k", <<"-", "1">> >>, Opt("r", 0) >>,
      << <<"m", <<"-", "1">> >> >>,
      << <<"w", <<"-", "1">> >> >>,
      << <<"b", <<"7", "x">> >>, Opt("r", 0) >> }

ArgvSet == RunArgv \cup GridArgv \cup OddArgv

\* The deltas of a block: an undisturbed read takes q ticks, the read at a
\* disturbed position i takes s + i ticks.
BlockOf(q, s, at) == [i \in 0..(BlockLen - 1) |-> IF i \in at THEN s + i ELSE q]

\* The blocks the hardware produces: quiet ones below and at the default
\* knee, one with three outliers just above it, one that starts with a far
\* outlier, and one where every read is disturbed.
Blocks ==
    { BlockOf(8, 51, {}),
      BlockOf(50, 51, {}),
      BlockOf(8, 51, {2, 5, 8}),
      BlockOf(8, 101, {0}),
      BlockOf(8, 101, 0..(BlockLen - 1)) }

\* TSC ticks between the reads that are not inside a block
OtherTicks == 40
\* TSC value and wall clock when main() starts
BootTsc == 1000
BootClock == 5000000
\* microseconds of wall clock a block and its analysis can take
OneSecond == 1000000
BlockMicros == { (OneSecond + MaxBlocks - 1) \div MaxBlocks, OneSecond }
\* TSC ticks per microsecond
TicksPerMicro == 2

(***************************************************************************)
(* Initial state: main() has been entered.                                 *)
(***************************************************************************)
NoReport ==
    [err |-> <<>>, rows |-> <<>>, mid_count |-> 0, stats |-> <<>>,
     advice |-> <<>>, file |-> <<>>]

InitLocals ==
    /\ errflag = 0
    /\ histo = NULL /\ oob = {}
    /\ outbuf = NULL /\ outfile = NULL
    /\ obp = 0 /\ didwrap = 0
    /\ min = U64(0) /\ max = U64(0)
    /\ delta_count = 0 /\ delta_sum = 0 /\ timing_ticks = 0
    /\ avg = RInt(0) /\ last_avg = RInt(0) /\ svn = RInt(0)
    /\ tsc = BootTsc /\ clock = BootClock
    /\ t0 = 0 /\ t5 = 0 /\ t10 = 0
    /\ deltas = [i \in 0..(BlockLen - 1) |-> 0] /\ dp = 0
    /\ start_tsc = 0 /\ stop_tsc = 0 /\ start_us = 0 /\ stop_us = 0 /\ now_us = 0
    /\ out = NoReport
    /\ seen = <<>>

Init ==
    /\ pc = "args_parse"
    /\ argv \in ArgvSet
    /\ args = DefaultArgs
    /\ InitLocals

(***************************************************************************)
(* main(), up to the sampling loop.                                        *)
(***************************************************************************)
\* errflag = args_parse(argc, argv)
ArgsParse ==
    /\ pc = "args_parse"
    /\ LET r == args_parse(args, argv)
       IN  args' = r.args /\ errflag' = r.ret
    /\ pc' = "arg_check"
    /\ UNCHANGED <<argv, histo, oob, outbuf, outfile, obp, didwrap, min, max,
                   delta_count, delta_sum, timing_ticks, avg, last_avg, svn,
                   tsc, t0, t5, t10, deltas, dp, start_tsc, stop_tsc, start_us,
                   stop_us, now_us, clock, out, seen>>

\* the argument validity checks and if (errflag) { ... exit(1); }
ArgCheck ==
    /\ pc = "arg_check"
    /\ errflag' = errflag + ArgErrors(args)
    /\ IF errflag' # 0
       THEN /\ out' = [out EXCEPT !.err = Append(@, "usage")]
            /\ pc' = "exit"
       ELSE /\ out' = out
            /\ pc' = "outliers_setup"
    /\ UNCHANGED <<argv, args, histo, oob, outbuf, outfile, obp, didwrap, min,
                   max, delta_count, delta_sum, timing_ticks, avg, last_avg,
                   svn, tsc, t0, t5, t10, deltas, dp, start_tsc, stop_tsc,
                   start_us, stop_us, now_us, clock, seen>>

\* if (args.outfile!=NULL && args.outbuf!=0) outliers_setup();
\* calloc() and fopen() can fail, and outliers_setup() then calls exit(1)
OutliersSetup ==
    /\ pc = "outliers_setup"
    /\ IF args.outfile # NULL /\ args.outbuf # 0
       THEN \/ /\ outbuf' = [i \in 0..(args.outbuf - 1) |-> [when |-> 0, delta |-> 0]]
               /\ outfile' = FileOpen
               /\ out' = out
               /\ pc' = "histo_setup"
            \/ /\ outbuf' = NULL
               /\ outfile' = NULL
               /\ out' = [out EXCEPT !.err = Append(@, "outlier buffer")]
               /\ pc' = "exit"
            \/ /\ outbuf' = [i \in 0..(args.outbuf - 1) |-> [when |-> 0, delta |-> 0]]
               /\ outfile' = NULL
               /\ out' = [out EXCEPT !.err = Append(@, "outliers file")]
               /\ pc' = "exit"
       ELSE /\ UNCHANGED <<outbuf, outfile, out>>
            /\ pc' = "histo_setup"
    /\ UNCHANGED <<argv, args, errflag, histo, oob, obp, didwrap, min, max,
                   delta_count, delta_sum, timing_ticks, avg, last_avg, svn,
                   tsc, t0, t5, t10, deltas, dp, start_tsc, stop_tsc, start_us,
                   stop_us, now_us, clock, seen>>

\* histo_setup(); malloc() can fail, and histo_setup() then calls exit(1)
HistoSetup ==
    /\ pc = "histo_setup"
    /\ \/ /\ LET r == histo_setup(args)
             IN  histo' = r.histo /\ oob' = r.oob
          /\ out' = out
          /\ pc' = "init_run"
       \/ /\ UNCHANGED <<histo, oob>>
          /\ out' = [out EXCEPT !.err = Append(@, "histogram bins")]
          /\ pc' = "exit"
    /\ UNCHANGED <<argv, args, errflag, outbuf, outfile, obp, didwrap, min, max,
                   delta_count, delta_sum, timing_ticks, avg, last_avg, svn,
                   tsc, t0, t5, t10, deltas, dp, start_tsc, stop_tsc, start_us,
                   stop_us, now_us, clock, seen>>

\* 1000000*args.runtime: the product of two ints is an int.  A product that
\* does not fit is undefined; every build of the source keeps its low 32 bits,
\* read as a signed number.  For 0 <= n < 2^15 and 0 <= c < 2^31.
Mul32(c, n) ==
    LET p == Mul64(U64(c), n)
    IN  IF p[3] >= Limb \div 2 THEN (p[3] - Limb) * Limb + p[4] ELSE p[3] * Limb + p[4]

\* LoopEntry for a loop that tests the deadline before its first pass
LoopEntryTested(now, stop) == IF now < stop THEN "block" ELSE "report"

\* do {: the body of the sampling loop is entered without a test
LoopEntry(now, stop) == "block"

\* the initialisers of main()'s statistics; rdtsc(start_tsc); gettimeofday();
\* start_us = ...; stop_us = start_us + 1000000*args.runtime.  The wall clock
\* of the model counts from a recent instant and not from 1970, so that a
\* stop_us before that instant is a negative number here; the uint64_t of the
\* source holds the microseconds since 1970 and does not wrap.
InitRun ==
    /\ pc = "init_run"
    /\ timing_ticks' = 0 /\ delta_count' = 0 /\ delta_sum' = 0
    /\ min' = UINT64_MAX /\ max' = U64(0)
    /\ obp' = 0 /\ didwrap' = 0
    /\ avg' = RInt(0) /\ svn' = RInt(0)
    /\ tsc' = tsc + OtherTicks
    /\ start_tsc' = tsc'
    /\ start_us' = clock
    /\ stop_us' = start_us' + (IF args.runtime >= 0
                                THEN Mul32(OneSecond, args.runtime)
                                ELSE -Mul32(OneSecond, -args.runtime))
    /\ pc' = LoopEntry(start_us', stop_us')
    /\ UNCHANGED <<argv, args, errflag, histo, oob, outbuf, outfile, last_avg,
                   t0, t5, t10, deltas, dp, stop_tsc, now_us, clock, out, seen>>

(***************************************************************************)
(* main(): the sampling loop.                                              *)
(***************************************************************************)
RECURSIVE SumTo(_, _)
\* f[0] + ... + f[n-1]
SumTo(f, n) == IF n <= 0 THEN 0 ELSE SumTo(f, n - 1) + f[n - 1]

\* BatchSpan counted from the counter as it was before the pause
BatchSpanFromBefore(first, last, before) == last - before

\* t10-t0: the ticks from the first to the last read of a block; before is
\* the counter when the pass of the loop began
BatchSpan(first, last, before) == last - first

\* if (args.pause) SLEEP_MSEC(args.pause); the 11 rdtsc() of a block, the ten
\* differences and timing_ticks += t10-t0
Block ==
    /\ pc = "block"
    /\ \E b \in Blocks :
         LET slept == IF args.pause # 0 THEN 1000 * args.pause ELSE 0
             r0 == tsc + TicksPerMicro * slept + OtherTicks
         IN  /\ clock' = clock + slept
             /\ t0' = r0
             /\ t5' = r0 + SumTo(b, 5)
             /\ t10' = r0 + SumTo(b, BlockLen)
             /\ tsc' = t10'
             /\ deltas' = b
             /\ timing_ticks' = timing_ticks + BatchSpan(t0', t10', tsc)
    /\ dp' = 0
    /\ pc' = "analyze"
    /\ UNCHANGED <<argv, args, errflag, histo, oob, outbuf, outfile, obp,
                   didwrap, min, max, delta_count, delta_sum, avg, last_avg,
                   svn, start_tsc, stop_tsc, start_us, stop_us, now_us, out,
                   seen>>

\* FindBin with the test written *dp>=bp->ub
RECURSIVE FindBinPastEqual(_, _, _)
FindBinPastEqual(h, d, bp) ==
    IF bp \notin DOMAIN h THEN bp
    ELSE IF Le64(h[bp].ub, d) THEN FindBinPastEqual(h, d, bp + 1)
    ELSE bp

\* for (bp=histo; *dp>bp->ub; bp++) {}: the index the scan stops at.  The
\* loop has no end test, so a scan no bound stops leaves the table.
RECURSIVE FindBin(_, _, _)
FindBin(h, d, bp) ==
    IF bp \notin DOMAIN h THEN bp
    ELSE IF Lt64(h[bp].ub, d) THEN FindBin(h, d, bp + 1)
    ELSE bp

\* the largest int (bin_t.count is an int, 32 bits wide)
INT_MAX == (2^30 - 1) + 2^30

\* bp->count++ on an int.  Past INT_MAX the increment is undefined; the add
\* instruction the builds emit for it wraps to INT_MIN.
IncInt(c) == IF c = INT_MAX THEN -INT_MAX - 1 ELSE c + 1

\* if (*dp < min) min = *dp
NextMin(m, d) == IF Lt64(d, m) THEN d ELSE m

\* avg += ((double)*dp-avg)/delta_count
NextAvg(a, d, n) == RAdd(a, RDivInt(RSub(RInt(d), a), n))
\* NextSvn with the new average in both factors
NextSvnOneAverage(v, d, a, la) == RAdd(v, RMul(RSub(RInt(d), a), RSub(RInt(d), a)))

\* svn += ((double)*dp-avg)*((double)*dp-last_avg)
NextSvn(v, d, a, la) == RAdd(v, RMul(RSub(RInt(d), a), RSub(RInt(d), la)))

\* IsOutlier with the test written *dp>=args.knee
IsOutlierOrKnee(ring, a, d) == ring # NULL /\ Le64(a.knee, d)

\* if (outbuf!=NULL && *dp>args.knee)
IsOutlier(ring, a, d) == ring # NULL /\ Lt64(a.knee, d)

\* RingInsert with the wrap test written obp-outbuf > args.outbuf
RingInsertPastEnd(ring, o, w, cap, when, d) ==
    [outbuf |-> [ring EXCEPT ![o] = [when |-> when, delta |-> d]],
     obp |-> IF o + 1 > cap THEN 0 ELSE o + 1,
     didwrap |-> IF o + 1 > cap THEN 1 ELSE w]

\* RingInsert that stays on the last entry instead of wrapping to the first
RingInsertNoWrap(ring, o, w, cap, when, d) ==
    [outbuf |-> [ring EXCEPT ![o] = [when |-> when, delta |-> d]],
     obp |-> IF o + 1 >= cap THEN o ELSE o + 1,
     didwrap |-> IF o + 1 >= cap THEN 1 ELSE w]

\* obp->when = t5; obp->delta = *dp; obp++; and the wrap around
RingInsert(ring, o, w, cap, when, d) ==
    [outbuf |-> [ring EXCEPT ![o] = [when |-> when, delta |-> d]],
     obp |-> IF o + 1 >= cap THEN 0 ELSE o + 1,
     didwrap |-> IF o + 1 >= cap THEN 1 ELSE w]

\* one pass of for (dp=deltas; dp<deltas+ARRAY_SIZE(deltas); dp++)
Analyze ==
    /\ pc = "analyze"
    /\ dp < BlockLen
    /\ LET d == deltas[dp]
           bp == FindBin(histo, U64(d), 0)
       IN  /\ min' = NextMin(min, U64(d))
           /\ max' = IF Lt64(max, U64(d)) THEN U64(d) ELSE max
           /\ IF bp \in DOMAIN histo
              THEN /\ histo' = [histo EXCEPT ![bp].count = IncInt(@)]
                   /\ oob' = oob
              ELSE /\ histo' = histo
                   /\ oob' = oob \cup {bp}
           /\ delta_count' = delta_count + 1
           /\ delta_sum' = delta_sum + d
           /\ last_avg' = avg
           /\ avg' = NextAvg(avg, d, delta_count')
           /\ svn' = NextSvn(svn, d, avg', last_avg')
           /\ IF IsOutlier(outbuf, args, U64(d))
              THEN LET r == RingInsert(outbuf, obp, didwrap, args.outbuf, t5, d)
                   IN  outbuf' = r.outbuf /\ obp' = r.obp /\ didwrap' = r.didwrap
              ELSE UNCHANGED <<outbuf, obp, didwrap>>
           /\ seen' = Append(seen, [when |-> t5, delta |-> d])
    /\ dp' = dp + 1
    /\ UNCHANGED <<pc, argv, args, errflag, outfile, timing_ticks, tsc, t0, t5,
                   t10, deltas, start_tsc, stop_tsc, start_us, stop_us, now_us,
                   clock, out>>

\* LoopTest that leaves the loop for the end of main()
LoopTestSkipsReport(now, stop) == IF now < stop THEN "block" ELSE "done"

\* } while (now_us < stop_us); and where main() goes on
LoopTest(now, stop) == IF now < stop THEN "block" ELSE "report"

\* rdtsc(stop_tsc); gettimeofday(); now_us = ...; } while (now_us < stop_us);
\* the wall clock lets a run sample at most MaxBlocks blocks
EndBlock ==
    /\ pc = "analyze"
    /\ dp = BlockLen
    /\ \E e \in BlockMicros :
         /\ (delta_count \div BlockLen < MaxBlocks) \/ (clock + e >= stop_us)
         /\ clock' = clock + e
         /\ tsc' = tsc + TicksPerMicro * e
    /\ stop_tsc' = tsc'
    /\ now_us' = clock'
    /\ pc' = LoopTest(now_us', stop_us)
    /\ UNCHANGED <<argv, args, errflag, histo, oob, outbuf, outfile, obp,
                   didwrap, min, max, delta_count, delta_sum, timing_ticks,
                   avg, last_avg, svn, t0, t5, t10, deltas, dp, start_tsc,
                   start_us, stop_us, out, seen>>

(***************************************************************************)
(* main(): the report.                                                     *)
(***************************************************************************)
\* the value of a uint64_t below 2^31 as a TLC integer
Val(x) == x[3] * Limb + x[4]

\* MidCount taken after c_count += bp->count
MidCountAfterAdding(h, a) == SumTo([i \in DOMAIN h |-> h[i].count], Half(a.bins) + 1)

\* mid_count: c_count when the row loop is at bp == histo+(args.bins/2)
MidCount(h, a) == SumTo([i \in DOMAIN h |-> h[i].count], Half(a.bins))

\* uint64_t max_count = 0; for (bp=histo; bp<histo+args.bins; bp++) if
\* (bp->count > max_count) max_count = bp->count: what the loop leaves in
\* max_count, the largest of 0 and the counts
MaxCount(h, a) ==
    LET counts == {h[i].count : i \in DOMAIN h} \cup {0}
    IN  CHOOSE m \in counts : \A c \in counts : c <= m

\* log(((double)c)-M_E) in thousandths, for c = 3, 4, ...; for c < 3 the
\* argument is negative and log() returns a NaN
LnMilli ==
    << -1267, 248, 825, 1188, 1454, 1664, 1838, 1985, 2114, 2228, 2330,
       2423, 2508, 2586, 2659, 2727, 2790, 2850, 2906, 2959, 3010, 3058,
       3104, 3148, 3190, 3230, 3269, 3306, 3342, 3377, 3411, 3443, 3475,
       3505, 3535, 3563, 3591, 3619, 3645, 3671 >>

\* what the argument of log(((double)c)-M_E) is
LnArg(c) == IF c <= 2 THEN "negative" ELSE "positive"

\* the quotient of two ints the way a double converts to int: truncated
Trunc(n, d) ==
    IF (n < 0) = (d < 0) THEN Abs(n) \div Abs(d) ELSE -(Abs(n) \div Abs(d))

\* the int a NaN converts to.  The conversion is undefined; an x86 build
\* gives INT_MIN and an ARM build 0.
NaNToInt == {-INT_MAX - 1, 0}

\* int countlog = graph_scale*log(((double)bp->count)-M_E), with graph_scale
\* = (double)(args.linewid-strlen(pre_graph_hdr))/log(((double)max_count)-M_E),
\* then if (countlog < 0) countlog = 0 and if (countlog==0 && bp->count!=0)
\* countlog = 1.  The product of the doubles is taken as the exact quotient.
Countlog(c, max_count, a, nan) ==
    LET raw == IF c <= 2 \/ max_count <= 2 THEN nan
               ELSE Trunc((a.linewid - PreGraphHdrLen) * LnMilli[c - 2],
                          LnMilli[max_count - 2])
        clamped == IF raw < 0 THEN 0 ELSE raw
    IN  IF clamped = 0 /\ c # 0 THEN 1 ELSE clamped

\* the rows of the histogram, from row i on: a bin's upper bound, its count,
\* c_count once c_count += bp->count has been done for the row, the sign of
\* the argument log() is called with for the row, and countlog
RECURSIVE Rows(_, _, _, _, _, _)
Rows(h, a, i, c_count, max_count, nan) ==
    IF i >= a.bins THEN <<>>
    ELSE <<[ub |-> h[i].ub, count |-> h[i].count, c_count |-> c_count + h[i].count,
            lnarg |-> LnArg(h[i].count),
            countlog |-> Countlog(h[i].count, max_count, a, nan)]>>
         \o Rows(h, a, i + 1, c_count + h[i].count, max_count, nan)

\* min<args.min || args.min<0.80*min.  The product is a double; for the
\* tick values of a run it orders against args.min as 4*min/5 does.
MinAdvice(a, m) == Lt64(m, a.min) \/ 5 * Val(a.min) < 4 * Val(m)
\* MinAdvised without the factor 0.80
MinAdvisedObserved(m) == Val(m)
\* MinAdvised that truncates instead of rounding
MinAdvisedTruncated(m) == (8 * Val(m)) \div 10

\* printf("%3.0f", 0.80*min): the nearest integer to 4*min/5
MinAdvised(m) == (8 * Val(m) + 5) \div 10

\* KneeLowAdvice with the test written <=90.0
KneeLowAdviceAtNinety(ring, mid, n) == ring = NULL /\ 100 * mid <= 90 * n

\* KneeHighAdvice without the test of outbuf
KneeHighAdviceAnyCapture(ring, mid, n) == 100 * mid > 99 * n

\* outbuf==NULL && 100.0*mid_count/delta_count<90.0, and >99.0
KneeLowAdvice(ring, mid, n) == ring = NULL /\ 100 * mid < 90 * n
KneeHighAdvice(ring, mid, n) == ring = NULL /\ 100 * mid > 99 * n

\* if (outbuf != NULL) { if (didwrap)
KneeWrapAdvice(ring, w) == ring # NULL /\ w # 0
\* KneeSpareAdvice with the test written against args.outbuf/2
KneeSpareAdviceHalf(ring, o, w, a) == ring # NULL /\ w = 0 /\ o < a.outbuf \div 2

\* ... else if (obp-outbuf < args.outbuf/4), an int division
KneeSpareAdvice(ring, o, w, a) == ring # NULL /\ w = 0 /\ o < a.outbuf \div 4

\* the lines of advice, in the order main() prints them
Advice(a, h, ring, o, w, m, n) ==
    LET mid == MidCount(h, a)
        knee == a.knee
    IN  (IF MinAdvice(a, m) THEN <<[what |-> "min", ticks |-> U64(MinAdvised(m))]>> ELSE <<>>)
        \o (IF KneeLowAdvice(ring, mid, n)
            THEN <<[what |-> "increasing knee", ticks |-> knee]>> ELSE <<>>)
        \o (IF KneeHighAdvice(ring, mid, n)
            THEN <<[what |-> "decreasing knee", ticks |-> knee]>> ELSE <<>>)
        \o (IF KneeWrapAdvice(ring, w)
            THEN <<[what |-> "increasing knee", ticks |-> knee]>> ELSE <<>>)
        \o (IF KneeSpareAdvice(ring, o, w, a)
            THEN <<[what |-> "decreasing knee", ticks |-> knee]>> ELSE <<>>)

\* double tpns = (stop_tsc-start_tsc)/1000.0/(stop_us-start_us), kept as its
\* two terms: the ticks and the microseconds it divides them by (which can
\* be 0, and the quotient of doubles is then infinite)
TicksPerNano(a_tsc, z_tsc, a_us, z_us) == [ticks |-> z_tsc - a_tsc, micros |-> z_us - a_us]

\* the statistics line: min, delta_sum/delta_count, std_dev and max, with
\* std_dev = sqrt(svn/delta_count) kept as its square, and the tpns that
\* scales the times of the report
Statistics(m, x, sum, v, n, tpns) ==
    [min |-> m, average |-> sum \div n, variance |-> RDivInt(v, n), max |-> x,
     tpns |-> tpns]

\* Dump without the test of obp->when
RECURSIVE DumpEverySlot(_, _, _)
DumpEverySlot(ring, cap, i) ==
    IF i >= cap THEN <<>> ELSE <<ring[i]>> \o DumpEverySlot(ring, cap, i + 1)

\* for (obp=outbuf; obp<outbuf+args.outbuf; obp++) { if (obp->when == 0)
\* continue; fprintf(outfile, ...); }: the entries written, from entry i on
RECURSIVE Dump(_, _, _)
Dump(ring, cap, i) ==
    IF i >= cap THEN <<>>
    ELSE (IF ring[i].when = 0 THEN <<>> ELSE <<ring[i]>>) \o Dump(ring, cap, i + 1)

\* everything main() does after the sampling loop
Report ==
    /\ pc = "report"
    /\ \E nan \in NaNToInt :
         out' = [out EXCEPT
                 !.rows = Rows(histo, args, 0, 0, MaxCount(histo, args), nan),
                 !.mid_count = MidCount(histo, args),
                 !.stats = <<Statistics(min, max, delta_sum, svn, delta_count,
                                        TicksPerNano(start_tsc, stop_tsc, start_us, stop_us))>>,
                 !.advice = Advice(args, histo, outbuf, obp, didwrap, min, delta_count),
                 !.file = IF outbuf # NULL THEN Dump(outbuf, args.outbuf, 0) ELSE @]
    /\ IF outbuf # NULL
       THEN obp' = args.outbuf /\ outfile' = FileClosed
       ELSE UNCHANGED <<obp, outfile>>
    /\ pc' = "done"
    /\ UNCHANGED <<argv, args, errflag, histo, oob, outbuf, didwrap, min, max,
                   delta_count, delta_sum, timing_ticks, avg, last_avg, svn,
                   tsc, t0, t5, t10, deltas, dp, start_tsc, stop_tsc, start_us,
                   stop_us, now_us, clock, seen>>

\* A write outside the table is undefined behaviour.  The run can go on as if
\* nothing happened, or the allocator finds its heap damaged and aborts.
Abort ==
    /\ pc \in {"init_run", "block", "analyze", "report"}
    /\ oob # {}
    /\ pc' = "abort"
    /\ UNCHANGED <<argv, args, errflag, histo, oob, outbuf, outfile, obp,
                   didwrap, min, max, delta_count, delta_sum, timing_ticks,
                   avg, last_avg, svn, tsc, t0, t5, t10, deltas, dp, start_tsc,
                   stop_tsc, start_us, stop_us, now_us, clock, out, seen>>

Next ==
    \/ ArgsParse
    \/ ArgCheck
    \/ OutliersSetup
    \/ HistoSetup
    \/ InitRun
    \/ Block
    \/ Analyze
    \/ EndBlock
    \/ Report
    \/ Abort

Spec == Init /\ [][Next]_vars

(***************************************************************************)
(* Table construction on its own: histo_setup() for every -b, -k and -m of *)
(* a grid that passes the argument checks.                                 *)
(***************************************************************************)
HistoArgv ==
    { << Opt("b", b), Opt("k", k), Opt("m", m) >> :
        b \in 1..MaxBins, k \in {40, 50, 1000}, m \in {0, 10, 39} }

InitHisto ==
    /\ pc = "histo_setup"
    /\ argv \in HistoArgv
    /\ args = args_parse(DefaultArgs, argv).args
    /\ ArgErrors(args) = 0
    /\ InitLocals

SpecHisto == InitHisto /\ [][HistoSetup]_vars

(***************************************************************************)
(* The count of a bin late in a long run: for (bp=histo; *dp>bp->ub; bp++)  *)
(* {} bp->count++ on its own, for the deltas of a block and a table in      *)
(* which one bin has counted up to within CountSlack of INT_MAX.  (The      *)
(* 64-bit counters of such a run are beyond the integers of the model, and  *)
(* this specification leaves them as they are.)                             *)
(***************************************************************************)
LongRunTables ==
    LET h == histo_setup(DefaultArgs).histo
    IN  { [h EXCEPT ![b].count = INT_MAX - k] : b \in DOMAIN h, k \in 0..CountSlack }

InitLongRun ==
    /\ pc = "analyze"
    /\ argv = <<>>
    /\ args = DefaultArgs
    /\ errflag = 0
    /\ histo \in LongRunTables /\ oob = {}
    /\ outbuf = NULL /\ outfile = NULL
    /\ obp = 0 /\ didwrap = 0
    /\ min = U64(0) /\ max = U64(0)
    /\ delta_count = 0 /\ delta_sum = 0 /\ timing_ticks = 0
    /\ avg = RInt(0) /\ last_avg = RInt(0) /\ svn = RInt(0)
    /\ tsc = BootTsc /\ clock = BootClock
    /\ t0 = 0 /\ t5 = 0 /\ t10 = 0
    /\ deltas \in Blocks /\ dp = 0
    /\ start_tsc = 0 /\ stop_tsc = 0 /\ start_us = 0 /\ stop_us = 0 /\ now_us = 0
    /\ out = NoReport
    /\ seen = <<>>

\* for (bp=histo; *dp>bp->ub; bp++) {} bp->count++; for the delta at dp
CountSample ==
    /\ pc = "analyze"
    /\ dp < BlockLen
    /\ LET bp == FindBin(histo, U64(deltas[dp]), 0)
       IN  histo' = [histo EXCEPT ![bp].count = IncInt(@)]
    /\ dp' = dp + 1
    /\ UNCHANGED <<pc, argv, args, errflag, oob, outbuf, outfile, obp, didwrap,
                   min, max, delta_count, delta_sum, timing_ticks, avg,
                   last_avg, svn, tsc, t0, t5, t10, deltas, start_tsc,
                   stop_tsc, start_us, stop_us, now_us, clock, out, seen>>

SpecLongRun == InitLongRun /\ [][CountSample]_vars

(***************************************************************************)
(* Properties.                                                             *)
(***************************************************************************)
\* A valid Configuration: bins even and >= 2, knee > min, knee - min >= bins/2
ValidConfiguration(a) ==
    /\ a.bins >= 2 /\ a.bins % 2 = 0
    /\ Lt64(a.min, a.knee)
    /\ Le64(U64(a.bins \div 2), Sub64(a.knee, a.min))

\* the decimal digits of a uint64_t
RECURSIVE Dec(_)
Dec(x) ==
    IF x = U64(0) THEN <<>>
    ELSE Append(Dec(Div64(x, 10)), DigitChars[Rem64(x, 10) + 1])

Decimal(x) == IF x = U64(0) THEN <<"0">> ELSE Dec(x)

\* n zeros
Zeros(n) == [i \in 1..n |-> "0"]

\* C1: for every valid Configuration histo_setup produces exactly bins upper
\* bounds, every non-final bound is strictly greater than the bound before
\* it, and the final bound is UINT64_MAX.
C1_BoundsIncreaseToSentinel ==
    (histo # NULL /\ ValidConfiguration(args)) =>
        /\ DOMAIN histo = 0..(args.bins - 1)
        /\ \A i \in 1..(args.bins - 2) : Lt64(histo[i - 1].ub, histo[i].ub)
        /\ histo[args.bins - 1].ub = UINT64_MAX

\* The reference table of C2, in decimal digits: the linear half is
\* min + floor((knee - min) * (i + 1) / (bins/2)), the upper half is
\* 2 * knee * 10^j and knee * 10^(j+1), the last entry is the sentinel.
ReferenceBound(a, i) ==
    LET h == a.bins \div 2
        j == (i - h) \div 2
    IN  IF i = a.bins - 1 THEN Decimal(UINT64_MAX)
        ELSE IF i < h
             THEN Text(Val(a.min) + ((Val(a.knee) - Val(a.min)) * (i + 1)) \div h)
        ELSE IF (i - h) % 2 = 0 THEN Text(2 * Val(a.knee)) \o Zeros(j)
        ELSE Text(Val(a.knee)) \o Zeros(j + 1)

\* C2: for every valid Configuration the table histo_setup builds equals the
\* reference table, entry by entry.
C2_TableIsReference ==
    (histo # NULL /\ ValidConfiguration(args)) =>
        \A i \in 0..(args.bins - 1) : Decimal(histo[i].ub) = ReferenceBound(args, i)

\* C3: a run whose bins is odd is refused by the argument checks: it never
\* gets past them to set anything up or to sample.
C3_OddBinsRejected ==
    (pc # "args_parse" /\ args.bins % 2 = 1) => pc \in {"arg_check", "exit"}

\* The four conditions of C4, on the values the command line sets.
BadKneeOrWidth(a) ==
    \/ Le64(a.knee, a.min)
    \/ Lt64(Sub64(a.knee, a.min), U64(a.bins \div 2))
    \/ a.linewid < PreGraphHdrLen + 1
    \/ a.linewid > PreGraphHdrLen + GraphStrLen

\* args_parse() returned 1 for this command line
ParseFailed == args_parse(DefaultArgs, argv).ret # 0

\* nothing is set up and no counter or clock has been read
NothingStarted ==
    /\ outbuf = NULL /\ outfile = NULL /\ histo = NULL
    /\ tsc = BootTsc /\ start_tsc = 0 /\ clock = BootClock /\ seen = <<>>

\* setting up failed: calloc(), fopen() or malloc() returned NULL
SetupFailed ==
    \E i \in 1..Len(out.err) :
        out.err[i] \in {"outlier buffer", "outliers file", "histogram bins"}

\* C4 as claimed: if one of the four conditions holds the run ends with a
\* failure exit before anything is set up or read, and if none holds and the
\* options parsed the run does not end with a failure exit.
C4_ExitIffBadKneeOrWidth ==
    (pc \notin {"args_parse", "arg_check"}) =>
        /\ BadKneeOrWidth(args) => (pc = "exit" /\ NothingStarted)
        /\ (~BadKneeOrWidth(args) /\ ~ParseFailed) => pc # "exit"

\* C4 as amended: as claimed, except that a run that passed the checks still
\* ends with a failure exit when setting up fails, before any counter read.
C4_ExitIffBadArgsOrSetupFails ==
    (pc \notin {"args_parse", "arg_check"}) =>
        /\ BadKneeOrWidth(args) => (pc = "exit" /\ NothingStarted)
        /\ (~BadKneeOrWidth(args) /\ ~ParseFailed) =>
              /\ pc = "exit" <=> SetupFailed
              /\ pc = "exit" => (tsc = BootTsc /\ seen = <<>>)

\* C4's case: the options parsed, knee is above min but too close to it for
\* bins/2 linear bins, and the run has ended before anything was set up.
C4_Witness ==
    /\ pc = "exit" /\ ~ParseFailed
    /\ Lt64(args.min, args.knee)
    /\ Lt64(Sub64(args.knee, args.min), U64(args.bins \div 2))
    /\ NothingStarted

\* the sum of the counts of a table
SumCounts(h) == SumTo([i \in DOMAIN h |-> h[i].count], Cardinality(DOMAIN h))

CoveringBins(h, d) == {i \in DOMAIN h : Le64(d, h[i].ub)}
LowestCovering(h, d) ==
    CHOOSE i \in CoveringBins(h, d) : \A j \in CoveringBins(h, d) : i <= j

\* one delta is accumulated by this step
Accumulates == pc = "analyze" /\ dp < BlockLen /\ dp' = dp + 1

RECURSIVE SumDeltas(_, _)
SumDeltas(sq, n) == IF n = 0 THEN 0 ELSE SumDeltas(sq, n - 1) + sq[n].delta

Mean(sq) == Rat(SumDeltas(sq, Len(sq)), Len(sq))

RECURSIVE SumSqDev(_, _, _)
SumSqDev(sq, m, n) ==
    IF n = 0 THEN RInt(0)
    ELSE LET dev == RSub(RInt(sq[n].delta), m)
         IN  RAdd(SumSqDev(sq, m, n - 1), RMul(dev, dev))

\* C7: after N >= 1 deltas avg is their arithmetic mean and svn is the sum of
\* their squared deviations from it, so that the variance the report takes
\* the square root of is the population variance.
C7_WelfordIsTwoPass ==
    (delta_count >= 1) =>
        /\ avg = Mean(seen)
        /\ svn = SumSqDev(seen, Mean(seen), Len(seen))
        /\ pc = "done" =>
              out.stats[1].variance = RDivInt(SumSqDev(seen, Mean(seen), Len(seen)), Len(seen))

\* C7's case: the report is out for two blocks of deltas that differ, with
\* a mean that is no integer.
C7_Witness ==
    /\ pc = "done" /\ delta_count = 2 * BlockLen
    /\ avg.d # 1 /\ svn.n > 0

\* the outliers among the deltas seen: those that exceed knee
ExceedsKnee(r) == Lt64(args.knee, U64(r.delta))
Outliers == SelectSeq(seen, ExceedsKnee)

\* the entries of the ring that hold a record
Live(ring) == {i \in DOMAIN ring : ring[i].when # 0}

\* C8: with capture enabled and capacity C >= 1, once more than C outliers
\* have been inserted the ring holds C live records, didwrap is set, and the
\* records are the C latest outliers in the order they were inserted, the
\* oldest of them in the entry the next insertion overwrites.
C8_RingKeepsLatest ==
    (outbuf # NULL /\ Len(Outliers) > args.outbuf) =>
        LET C == args.outbuf
            n == Len(Outliers)
        IN  /\ C >= 1
            /\ Cardinality(Live(outbuf)) = C
            /\ didwrap = 1
            /\ \A k \in 0..(C - 1) : outbuf[(n + k) % C] = Outliers[n - C + k + 1]

\* C8's case: the ring has wrapped and is part of the way round again.
C8_Witness ==
    /\ outbuf # NULL /\ pc = "analyze"
    /\ Len(Outliers) > args.outbuf /\ Len(Outliers) % args.outbuf # 0

\* capture is enabled: a file was named and the capacity is not 0
CaptureEnabled == args.outfile # NULL /\ args.outbuf # 0

\* C9: a delta puts one record, with the delta as its magnitude, into the
\* ring exactly when capture is enabled and the delta is above knee, and
\* otherwise leaves the ring alone; after a first delta that is above knee
\* and a capacity of more than one the ring holds one record, didwrap is
\* clear and the bin that covers the delta has count 1.
C9_InsertsIffAboveKnee ==
    [][Accumulates =>
        LET d == deltas[dp]
        IN  IF CaptureEnabled /\ Lt64(args.knee, U64(d))
            THEN /\ outbuf' = [outbuf EXCEPT ![obp] = [when |-> t5, delta |-> d]]
                 /\ obp' = (obp + 1) % args.outbuf
                 /\ (seen = <<>> /\ args.outbuf > 1) =>
                       /\ Cardinality(Live(outbuf')) = 1
                       /\ didwrap' = 0
                       /\ histo'[LowestCovering(histo, U64(d))].count = 1
                       /\ SumCounts(histo') = 1
            ELSE UNCHANGED <<outbuf, obp, didwrap>>]_vars

\* C9's case: the first delta of a run with capture enabled was far above
\* knee and is the one record of the ring.
C9_Witness ==
    /\ outbuf # NULL /\ Len(seen) = 1
    /\ Lt64(Mul64(args.knee, 2), U64(seen[1].delta))
    /\ outbuf[0].delta = seen[1].delta /\ obp = 1 /\ didwrap = 0

\* the advice lines about min that the report holds
MinLines == SelectSeq(out.advice, LAMBDA r : r.what = "min")

RaiseLines == SelectSeq(out.advice, LAMBDA r : r.what = "increasing knee")
LowerLines == SelectSeq(out.advice, LAMBDA r : r.what = "decreasing knee")

\* the cumulative count the report prints in the row of bin i; 0 before row 0
CumulativeAt(i) == IF i < 0 THEN 0 ELSE out.rows[i + 1].c_count

\* C11 as claimed: with capture disabled, raising knee is advised exactly
\* when the cumulative percent of the row of bin bins/2 is below 90, and
\* lowering it exactly when that percent is above 99.
C11_KneeAdviceAtRowBinsHalf ==
    (pc = "done" /\ outbuf = NULL /\ args.bins >= 2) =>
        LET c == CumulativeAt(args.bins \div 2)
        IN  /\ Len(RaiseLines) = (IF 100 * c < 90 * delta_count THEN 1 ELSE 0)
            /\ Len(LowerLines) = (IF 100 * c > 99 * delta_count THEN 1 ELSE 0)

\* C11 as amended: the percent that is tested is the cumulative percent of
\* the row before, the row of bin bins/2 - 1 whose bound is knee: the share
\* of the samples counted below bin bins/2.
C11_KneeAdviceBelowBinsHalf ==
    (pc = "done" /\ outbuf = NULL /\ args.bins >= 2) =>
        LET c == CumulativeAt(args.bins \div 2 - 1)
        IN  /\ Len(RaiseLines) = (IF 100 * c < 90 * delta_count THEN 1 ELSE 0)
            /\ Len(LowerLines) = (IF 100 * c > 99 * delta_count THEN 1 ELSE 0)

\* C11's case: capture is disabled, less than 90% of the samples are at or
\* below knee and raising knee is advised, while the row of bin bins/2 shows
\* more than 99%.
C11_Witness ==
    /\ pc = "done" /\ outbuf = NULL /\ args.bins >= 2
    /\ Len(RaiseLines) = 1 /\ LowerLines = <<>>
    /\ 100 * CumulativeAt(args.bins \div 2 - 1) < 90 * delta_count
    /\ 100 * CumulativeAt(args.bins \div 2) > 99 * delta_count

Least(a, b) == IF a < b THEN a ELSE b

\* C13: the report writes every entry of the ring that was written, once, and
\* no entry that never was, so it writes min(outliers captured, capacity)
\* records, and nothing is written before the report; with capture disabled
\* no file is opened and nothing is written.
C13_DumpsWrittenSlots ==
    /\ (pc = "done" /\ outbuf # NULL) =>
          LET n == Least(Len(Outliers), args.outbuf)
          IN  /\ Len(out.file) = n
              /\ \A k \in 1..n : out.file[k] = outbuf[k - 1]
    /\ (pc # "done") => out.file = <<>>
    /\ ~CaptureEnabled => (outfile = NULL /\ outbuf = NULL /\ out.file = <<>>)

\* C13's case: the report is out for a ring that is part full, and the file
\* holds the records of the entries that were written and no others.
C13_Witness ==
    /\ pc = "done" /\ outbuf # NULL
    /\ Len(Outliers) >= 1 /\ Len(Outliers) < args.outbuf
    /\ Len(out.file) = Len(Outliers)
    /\ outbuf[Len(Outliers)].when = 0

\* the wall-clock read now is before startTime + runSeconds
BeforeDeadline(now) == (now - start_us) \div OneSecond < args.runtime

\* C14: the wall clock is read, and the deadline tested, only between batches
\* (in a run that stays inside its table): sampling leaves a batch only when
\* all 10 of its deltas are accumulated, goes on to the next batch exactly
\* when the read is before startTime + runSeconds, and the report starts only
\* from the end of a batch.
C14_DeadlineBetweenBatches ==
    [][(oob = {} /\ oob' = {}) =>
         /\ (pc = "analyze" /\ pc' # "analyze") =>
               /\ dp = BlockLen /\ Len(seen) % BlockLen = 0
               /\ pc' = (IF BeforeDeadline(now_us') THEN "block" ELSE "report")
         /\ (pc' = "report") => (pc = "analyze")
         /\ (now_us' # now_us) => (pc = "analyze" /\ dp = BlockLen)]_vars

\* the options the documentation gives a value to
ValueOptions == {"b", "f", "k", "m", "o", "p", "r", "w"}

\* C15: a command line of documented options with -o N parses without a
\* usage error and sets the capacity of the outlier buffer to N.
C15_OutbufOptionAccepted ==
    (pc # "args_parse" /\ \A i \in 1..Len(argv) : argv[i][1] \in ValueOptions) =>
        /\ pc = "arg_check" => errflag = 0
        /\ \A i \in 1..Len(argv) :
              (argv[i][1] = "o" /\ \A j \in (i + 1)..Len(argv) : argv[j][1] # "o")
                  => args.outbuf = atoi(argv[i][2])

\* the phases of a run: 1 Configuring, 2 Sampling, 3 Reporting, 4 Done, and 5
\* for a run that ended early, with exit(1) or an abort
Phase(p) ==
    CASE p \in {"args_parse", "arg_check", "outliers_setup", "histo_setup"} -> 1
      [] p \in {"init_run", "block", "analyze"} -> 2
      [] p = "report" -> 3
      [] p = "done" -> 4
      [] OTHER -> 5

\* what the report and the outlier file hold
Output == <<out.rows, out.stats, out.advice, out.file>>

\* everything is set up: the table, and with capture enabled the ring and
\* the open file
SetUp ==
    /\ histo # NULL
    /\ CaptureEnabled => (outbuf # NULL /\ outfile = FileOpen)

\* C16: a run goes through Configuring, Sampling, Reporting and Done in that
\* order and enters none of them again (a run that ends early stops on the
\* way); the counter is read only when everything is set up and nothing is
\* allocated or opened after; output is produced only by the report, after
\* which nothing is accumulated.
C16_PhasesInOrder ==
    [][/\ Phase(pc') \in {Phase(pc), Phase(pc) + 1, 5}
       /\ (pc' = "exit") => (Phase(pc) = 1)
       /\ (tsc' # tsc) => (Phase(pc) = 2 /\ SetUp)
       /\ (Phase(pc) >= 2) =>
             /\ (histo' = NULL) <=> (histo = NULL)
             /\ (outbuf' = NULL) <=> (outbuf = NULL)
             /\ outfile' \in {outfile, FileClosed}
       /\ (Output' # Output) =>
             (pc = "report" /\ Output = <<<<>>, <<>>, <<>>, <<>>>>)
       /\ (seen' # seen) => (Phase(pc) = 2 /\ Phase(pc') = 2)]_vars

\* C16's case: a run with capture enabled has sampled two batches, reported
\* and closed its outlier file.
C16_Witness ==
    /\ pc = "done" /\ outfile = FileClosed /\ out.file # <<>>
    /\ Len(seen) = 2 * BlockLen /\ out.stats # <<>>

\* C17: for every valid Configuration histo_setup writes only the entries 0
\* to bins-1 of the table, and none at bins or beyond.
C17_WritesInsideTable ==
    (histo # NULL /\ ValidConfiguration(args)) => oob = {}

\* C18: didwrap is set exactly when a record has been overwritten, which is
\* when more outliers than the capacity have been inserted; after exactly
\* capacity insertions it is still clear.
C18_WrappedIffOverwritten ==
    (outbuf # NULL) => (didwrap # 0 <=> Len(Outliers) > args.outbuf)

\* C19: for a runSeconds that is not negative the deadline is startTime +
\* 1,000,000 * runSeconds microseconds: it is not before the start and it is
\* runSeconds whole seconds after it.
C19_DeadlineIsStartPlusRuntime ==
    (pc \in {"block", "analyze", "report", "done"} /\ args.runtime >= 0) =>
        /\ stop_us >= start_us
        /\ (stop_us - start_us) \div OneSecond = args.runtime
        /\ (stop_us - start_us) % OneSecond = 0

\* C20: the ticks per nanosecond of the report are the counter ticks from
\* the first to the last counter read of the run, divided by the wall-clock
\* time from the start to the last wall-clock read, overshoot included (in a
\* run whose deadline is not before its start).
C20_CalibrationOverMeasuredTime ==
    (pc = "done" /\ stop_us >= start_us) =>
        /\ out.stats[1].tpns.ticks = stop_tsc - start_tsc
        /\ out.stats[1].tpns.micros = now_us - start_us

\* C21: the count of every bin is a non-negative integer in every state,
\* however many samples the bin has counted.
C21_CountsNeverNegative ==
    (histo # NULL) => \A i \in DOMAIN histo : histo[i].count >= 0

C23_NoLogOfNegative ==
    (pc = "done") =>
        \A i \in 1..Len(out.rows) :
            /\ out.rows[i].lnarg # "negative"
            /\ out.rows[i].count = 0 => out.rows[i].countlog = 0
            /\ out.rows[i].count # 0 => out.rows[i].countlog >= 1

\* C24: when the report begins at least one whole batch has been sampled and
\* accumulated, also when the deadline had passed at the start: delta_count
\* is a positive multiple of 10, what the report divides by is not 0, and
\* some bin has a count.
C24_ReportsAfterAFullBatch ==
    (pc \in {"report", "done"}) =>
        /\ delta_count >= BlockLen /\ delta_count % BlockLen = 0
        /\ Len(seen) = delta_count
        /\ \E i \in DOMAIN histo : histo[i].count > 0
        /\ pc = "done" => out.stats[1].average = delta_sum \div delta_count

\* C24's case: a run for 0 seconds is about to report on its one batch.
C24_Witness ==
    /\ pc = "report" /\ args.runtime = 0 /\ stop_us = start_us
    /\ delta_count = BlockLen

\* the samples seen whose delta is at or below knee
AtOrBelowKnee == {k \in 1..Len(seen) : Le64(U64(seen[k].delta), args.knee)}

C26_OneKneeLine ==
    (pc = "done") => Len(RaiseLines) + Len(LowerLines) <= 1

\* C26's case: capture is enabled and caught nothing, and every sample is at
\* or below knee: the ring and the percent both speak for lowering knee, and
\* the report says it once.
C26_Witness ==
    /\ pc = "done" /\ outbuf # NULL /\ Outliers = <<>>
    /\ 100 * out.mid_count > 99 * delta_count
    /\ Len(LowerLines) = 1 /\ RaiseLines = <<>>

\* the sum of the counts of the upper half of the table, bins/2 to bins-1
UpperCounts == SumCounts(histo) - SumTo([i \in DOMAIN histo |-> histo[i].count],
                                        args.bins \div 2)

\* C27: with capture enabled and a valid Configuration, after every sample
\* accumulated the write index of the ring is in [0, capacity-1], and while
\* didwrap is clear it is the number of samples seen so far with a delta
\* above knee, which is the sum of the counts of the upper half of the bins.
C27_WriteIndexCountsOutliers ==
    (outbuf # NULL /\ histo # NULL /\ pc \in {"init_run", "block", "analyze", "report"}
       /\ ValidConfiguration(args)) =>
        /\ obp \in 0..(args.outbuf - 1)
        /\ (didwrap = 0) => (obp = Len(Outliers) /\ obp = UpperCounts)

\* C27's case: the ring holds some outliers and has not wrapped, and samples
\* at or below knee have been counted as well.
C27_Witness ==
    /\ outbuf # NULL /\ pc = "analyze" /\ ValidConfiguration(args)
    /\ didwrap = 0 /\ obp >= 2 /\ UpperCounts = obp
    /\ Len(seen) > obp

\* C28: timing_ticks grows only by t10 - t0 of each batch, not by the pause,
\* the analysis or the wall-clock reads: once a batch is accumulated it is
\* the running sum of all deltas, and it never exceeds the ticks elapsed
\* since the start of the run.
C28_TimingTicksIsSumOfDeltas ==
    (pc \in {"block", "analyze", "report", "done"}) =>
        /\ (pc # "analyze" \/ dp = BlockLen) =>
              /\ timing_ticks = SumDeltas(seen, Len(seen))
              /\ timing_ticks = delta_sum
        /\ (pc = "analyze") =>
              timing_ticks = SumDeltas(seen, Len(seen)) + SumTo(deltas, BlockLen) - SumTo(deltas, dp)
        /\ timing_ticks <= tsc - start_tsc
        /\ (pc \in {"report", "done"}) => timing_ticks <= stop_tsc - start_tsc

\* C28's case: a run that pauses before each batch has sampled two batches,
\* and the ticks of the run exceed timing_ticks by more than the two pauses.
C28_Witness ==
    /\ pc = "report" /\ args.pause > 0 /\ Len(seen) = 2 * BlockLen
    /\ timing_ticks = delta_sum
    /\ stop_tsc - start_tsc > timing_ticks + 2 * TicksPerMicro * 1000 * args.pause

\* the statistics of the run
RunStatistics == <<min, max, delta_count, delta_sum, timing_ticks, avg, svn>>

\* C29: once the table is built no upper bound changes, and the arguments
\* are not modified after they are parsed; during sampling every count,
\* delta_count, delta_sum and max only grow and min only falls; and from
\* the end of sampling on no count, statistic or outlier record changes.
C29_FrameOfSamplingAndReport ==
    [][/\ (histo # NULL) =>
             /\ DOMAIN histo' = DOMAIN histo
             /\ \A i \in DOMAIN histo : histo'[i].ub = histo[i].ub
       /\ (pc # "args_parse") => args' = args
       /\ (pc \in {"block", "analyze"}) =>
             /\ \A i \in DOMAIN histo : histo'[i].count >= histo[i].count
             /\ delta_count' >= delta_count /\ delta_sum' >= delta_sum
             /\ Le64(max, max') /\ Le64(min', min)
       /\ (pc \in {"report", "done"}) =>
             /\ histo' = histo /\ RunStatistics' = RunStatistics
             /\ outbuf' = outbuf /\ didwrap' = didwrap]_vars

\* C30: a run with a valid Configuration ends in done with its report
\* printed; the part of this that a state can refute is that such a run
\* is never cut short by an abort, from which done is out of reach.
C30_ValidRunIsNotAborted ==
    (pc = "abort") => ~ValidConfiguration(args)

====
